---- MODULE Spec2Model ----
(***************************************************************************)
(* Model of the Pirate MIDI firmware updater's release catalog client and  *)
(* asset downloader (src-tauri/src/commands/github.rs), of the install     *)
(* dispatch and of the two installers of src-tauri/src/dfu.rs.             *)
(*                                                                         *)
(* One invocation of fetch_releases is tracked in `rel`, the invocations   *)
(* of fetch_compatable_asset in `dl` (one record per task, so that two     *)
(* downloads may overlap), one invocation of install in `inst`, one of     *)
(* install_rpi in `rpi` and one of install_bridge in `dfu`.  A record      *)
(* holds the locals of the call while it runs and its returned value until *)
(* the caller takes it.                                                    *)
(***************************************************************************)
EXTENDS Naturals, Sequences, FiniteSets, TLC

VARIABLES rel, dl, inst, rpi, dfu

vars == <<rel, dl, inst, rpi, dfu>>

\* The state of the two installers of dfu.rs.
installers == <<rpi, dfu>>

(***************************************************************************)
(* Bounds of the model.                                                    *)
(***************************************************************************)
MaxReleases == 2
MaxAssets == 2
MaxClock == 1
MaxDisks == 2
MaxBlocks == 1
MaxUsbDevices == 2

(***************************************************************************)
(* Devices.                                                                *)
(***************************************************************************)
BootloaderTypes == {"BridgeBootloader", "RPBootloader", "Unknown"}

ApplicationTypes == {"Bridge4", "Bridge6", "Click", "ULoop"}

ConnectedDeviceType == BootloaderTypes \cup ApplicationTypes

ConnectedDevice == [device_type : ConnectedDeviceType]

GITHUB_BRIDGE_REPO == "GITHUB_BRIDGE_REPO"
GITHUB_CLICK_REPO == "GITHUB_CLICK_REPO"
GITHUB_ULOOP_REPO == "GITHUB_ULOOP_REPO"

NoRepo == "none"

(***************************************************************************)
(* Error values: the variant (kind) and the message it carries.            *)
(***************************************************************************)
Error(kind, msg) == [kind |-> kind, msg |-> msg]

Ok(v) == [ok |-> TRUE, value |-> v]

Err(e) == [ok |-> FALSE, err |-> e]

Pending == [ok |-> FALSE, err |-> Error("pending", <<>>)]

\* A call made by an operation (a request, a read, a write, a USB transfer)
\* and how it ended; the record of an invocation logs them in order.
Done(op, outcome) == [op |-> op, outcome |-> outcome]

Logged(d, op, outcome) == [d EXCEPT !.log = Append(@, Done(op, outcome))]

Failing(d, error) == [d EXCEPT !.pc = "done", !.result = Err(error)]

(***************************************************************************)
(* Releases and assets.  The asset names the catalog may carry; an asset's *)
(* download URL is its release's tag and its name.                         *)
(***************************************************************************)
AssetNames == {"bridge4.bin", "bridge6.bin", "click.uf2"}

Asset(tag, name) == [name |-> name, browser_download_url |-> <<tag, name>>]

SeqsUpTo(S, n) == UNION {[1..k -> S] : k \in 0..n}

AssetLists(tag) ==
    {[i \in 1..Len(ns) |-> Asset(tag, ns[i])] : ns \in SeqsUpTo(AssetNames, MaxAssets)}

Release(tag, assets) == [tag_name |-> tag, assets |-> assets]

Releases == UNION {{Release(tag, as) : as \in AssetLists(tag)} : tag \in 1..MaxReleases}

\* The well-formed listings: the i-th release carries the tag i.
Listings ==
    UNION {{l \in [1..k -> Releases] : \A i \in 1..k : l[i].tag_name = i}
           : k \in 0..MaxReleases}

(***************************************************************************)
(* Compatibility matcher: the naming convention that ties an asset to the  *)
(* device family it targets.                                               *)
(***************************************************************************)
AssetTarget(name) ==
    CASE name = "bridge4.bin" -> "Bridge4"
      [] name = "bridge6.bin" -> "Bridge6"
      [] name = "click.uf2" -> "Click"
      [] OTHER -> "none"

is_compatible(asset, device) == AssetTarget(asset.name) = device.device_type

(***************************************************************************)
(* HTTP boundary.  A request either fails in transport or is answered with *)
(* a status and a body; a body parses as a listing or does not.  An error  *)
(* status carries an error document, which is no listing.                  *)
(***************************************************************************)
StatusOK == 200
StatusForbidden == 403
StatusTooManyRequests == 429

\* The 2xx statuses answered: 200 (OK) and 203 (Non-Authoritative Information).
SuccessStatuses == {StatusOK, 203}

\* With them, the rate-limit statuses, 404 (Not Found) and 500 (Server Error).
Statuses == SuccessStatuses \cup {StatusForbidden, StatusTooManyRequests, 404, 500}

MalformedBody == [well_formed |-> FALSE, releases |-> <<>>]

ListingBody(l) == [well_formed |-> TRUE, releases |-> l]

Bodies == {MalformedBody} \cup {ListingBody(l) : l \in Listings}

TransportFailure == [sent |-> FALSE, status |-> 0, body |-> MalformedBody]

Answer(status, body) == [sent |-> TRUE, status |-> status, body |-> body]

Responses ==
    {TransportFailure}
      \cup {Answer(s, b) : s \in SuccessStatuses, b \in Bodies}
      \cup {Answer(s, MalformedBody) : s \in Statuses \ SuccessStatuses}

(***************************************************************************)
(* Release catalog client.                                                 *)
(***************************************************************************)
\* A test that takes a release for usable as soon as it has an asset.
any_compatible_nonempty(release, device) == Len(release.assets) > 0

\* release.assets.iter().any(|asset| asset.is_compatible(device))
any_compatible(release, device) ==
    \E i \in 1..Len(release.assets) : is_compatible(release.assets[i], device)

\* A filter that keeps every release, usable or not.
compatible_releases_unfiltered(releases, device) == releases

\* A filter that keeps the usable releases but yields them last to first.
compatible_releases_reversed(releases, device) ==
    LET kept == SelectSeq(releases, LAMBDA r : any_compatible(r, device))
    IN  [i \in 1..Len(kept) |-> kept[Len(kept) + 1 - i]]

\* releases.iter().filter(..).cloned().collect()
compatible_releases(releases, device) ==
    SelectSeq(releases, LAMBDA r : any_compatible(r, device))

\* The match on the outcome of the request in get_releases.
get_releases_result(device, response) ==
    IF ~response.sent
    THEN Err(Error("Http", <<"transport">>))
    ELSE IF response.status = StatusOK
    THEN IF response.body.well_formed
         THEN Ok(compatible_releases(response.body.releases, device))
         ELSE Err(Error("Http", <<"decode">>))
    ELSE IF response.status \in {StatusForbidden, StatusTooManyRequests}
    THEN Err(Error("Http", <<"Github rate limit hit!">>))
    ELSE Err(Error("Http", <<"recieved an unsupported http status code", response.status>>))

\* A dispatch that resolves the ROM bootloader to a repository.
fetch_releases_repo_rp(device_type) ==
    CASE device_type \in {"BridgeBootloader", "Unknown"} -> NoRepo
      [] device_type \in {"Bridge4", "Bridge6"} -> GITHUB_BRIDGE_REPO
      [] device_type \in {"Click", "RPBootloader"} -> GITHUB_CLICK_REPO
      [] device_type = "ULoop" -> GITHUB_ULOOP_REPO

\* The match on the device type in fetch_releases.
fetch_releases_repo(device_type) ==
    CASE device_type \in {"BridgeBootloader", "RPBootloader", "Unknown"} -> NoRepo
      [] device_type \in {"Bridge4", "Bridge6"} -> GITHUB_BRIDGE_REPO
      [] device_type = "Click" -> GITHUB_CLICK_REPO
      [] device_type = "ULoop" -> GITHUB_ULOOP_REPO

NoDevice == [device_type |-> "Unknown"]

IdleRel ==
    [pc |-> "idle", device |-> NoDevice, requests |-> <<>>,
     response |-> TransportFailure, result |-> Pending]

\* fetch_releases up to its first await: the dispatch, and the request of
\* get_releases when the device has a repository.
fetch_releases_call(device) ==
    LET repo == fetch_releases_repo(device.device_type)
    IN  IF repo = NoRepo
        THEN [pc |-> "done", device |-> device, requests |-> <<>>,
              response |-> TransportFailure,
              result |-> Err(Error("Other",
                                   <<"github releases do not exist for this device type">>))]
        ELSE [pc |-> "awaiting", device |-> device, requests |-> <<repo>>,
              response |-> TransportFailure, result |-> Pending]

\* get_releases from the completion of the request to its return.
get_releases_return(r, response) ==
    [r EXCEPT !.pc = "done", !.response = response,
              !.result = get_releases_result(r.device, response)]

(***************************************************************************)
(* Asset downloader.                                                       *)
(***************************************************************************)
Tasks == {1, 2}

NoAsset == Asset(0, "none")

NoRelease == Release(0, <<>>)

NotListed == "none"

\* The indices of the assets of a release that are compatible with a device.
CompatibleIndices(release, device) ==
    {i \in 1..Len(release.assets) : is_compatible(release.assets[i], device)}

\* A search that yields the first asset of the release whatever it targets.
find_compatible_any(release, device) ==
    IF Len(release.assets) = 0 THEN NoAsset ELSE release.assets[1]

\* release.assets.iter().find(|&a| a.is_compatible(device))
find_compatible(release, device) ==
    LET idx == CompatibleIndices(release, device)
    IN  IF idx = {} THEN NoAsset
        ELSE release.assets[CHOOSE i \in idx : \A j \in idx : i <= j]

\* SystemTime::now(): a wall-clock reading, either some milliseconds after the
\* epoch or earlier than the epoch.
ClockReadings ==
    {[after_epoch |-> TRUE, millis |-> m] : m \in 0..MaxClock}
      \cup {[after_epoch |-> FALSE, millis |-> 0]}

\* temp_dir().join(format!("{time}-{}", asset.name))
temp_file_path(time, asset) == <<time, asset.name>>

FileOutcomes == {"ok", "create_failed", "copy_failed"}

IdleDl ==
    [pc |-> "idle", device |-> NoDevice, release |-> NoRelease, listed_for |-> NotListed,
     asset |-> NoAsset, requests |-> <<>>, created |-> <<>>, written |-> <<>>,
     log |-> <<>>, result |-> Pending]

\* fetch_compatable_asset up to its first await: the search for the asset and
\* the request for it.  listed_for records the device the release was listed
\* for, when the caller took it from a result of fetch_releases.
fetch_compatable_asset_call(device, release, listed_for) ==
    LET asset == find_compatible(release, device)
        call == [IdleDl EXCEPT !.device = device, !.release = release,
                               !.listed_for = listed_for]
    IN  IF asset = NoAsset
        THEN [call EXCEPT !.pc = "done",
                          !.result = Err(Error("Http",
                              <<"unable to find compatible asset from release!">>))]
        ELSE [call EXCEPT !.pc = "awaiting_response", !.asset = asset,
                          !.requests = <<asset.browser_download_url>>]

\* request.await
fetch_compatable_asset_response(d, sent) ==
    IF sent
    THEN [Logged(d, "send", "ok") EXCEPT !.pc = "awaiting_bytes"]
    ELSE Failing(Logged(d, "send", "err"), Error("Http", <<"transport">>))

\* A download that returns the path although the copy into the file failed.
fetch_compatable_asset_bytes_unwritten(d, received, now, file) ==
    LET path == temp_file_path(now.millis, d.asset)
        body == Logged(d, "bytes", "ok")
        timed == Logged(body, "now", "ok")
        made == [Logged(timed, "create", "ok") EXCEPT !.created = <<path>>]
    IN  IF ~received
        THEN Failing(Logged(d, "bytes", "err"), Error("Http", <<"body">>))
        ELSE IF ~now.after_epoch
        THEN [Logged(body, "now", "err") EXCEPT !.pc = "panicked"]
        ELSE IF file = "create_failed"
        THEN Failing(Logged(timed, "create", "err"), Error("IO", <<"create">>))
        ELSE [Logged(made, "copy", IF file = "ok" THEN "ok" ELSE "err") EXCEPT
                  !.pc = "done",
                  !.written = IF file = "ok"
                              THEN <<[path |-> path,
                                      payload |-> d.asset.browser_download_url]>>
                              ELSE <<>>,
                  !.result = Ok(path)]

\* response.bytes().await, and on a payload the timestamp, the creation of the
\* temp file and the copy of the payload into it.
fetch_compatable_asset_bytes(d, received, now, file) ==
    LET path == temp_file_path(now.millis, d.asset)
        payload == d.asset.browser_download_url
        body == Logged(d, "bytes", "ok")
        timed == Logged(body, "now", "ok")
        made == [Logged(timed, "create", "ok") EXCEPT !.created = <<path>>]
    IN  IF ~received
        THEN Failing(Logged(d, "bytes", "err"), Error("Http", <<"body">>))
        ELSE IF ~now.after_epoch
        THEN [Logged(body, "now", "err") EXCEPT !.pc = "panicked"]
        ELSE IF file = "create_failed"
        THEN Failing(Logged(timed, "create", "err"), Error("IO", <<"create">>))
        ELSE IF file = "copy_failed"
        THEN Failing(Logged(made, "copy", "err"), Error("IO", <<"copy">>))
        ELSE [Logged(made, "copy", "ok") EXCEPT
                  !.pc = "done",
                  !.written = <<[path |-> path, payload |-> payload]>>,
                  !.result = Ok(path)]

(***************************************************************************)
(* Install dispatch: the device type selects one of the two installers of  *)
(* dfu.rs, whose outcome is the outcome of the install.                    *)
(***************************************************************************)
\* A dispatch with no strategy for the ULoop.
strategy_for_partial(device_type) ==
    CASE device_type \in {"Bridge4", "Bridge6"} -> <<"Dfu">>
      [] device_type = "Click" -> <<"MassStorage">>
      [] OTHER -> <<>>

\* The strategies a device type resolves to.
strategy_for(device_type) ==
    CASE device_type \in {"Bridge4", "Bridge6"} -> <<"Dfu">>
      [] device_type \in {"Click", "ULoop"} -> <<"MassStorage">>
      [] OTHER -> <<>>

installer_of(strategy) ==
    IF strategy = "Dfu" THEN "install_bridge" ELSE "install_rpi"

\* What an installer returns: install_bridge () or an IO or Usb error,
\* install_rpi the bytes written or an IO or Install error.
InstallerOutcomes(installer) ==
    IF installer = "install_bridge"
    THEN {Ok(<<>>), Err(Error("IO", <<>>)), Err(Error("Usb", <<>>))}
    ELSE {Ok(<<>>), Err(Error("IO", <<>>)), Err(Error("Install", <<>>))}

NoPath == <<0, "none">>

IdleInst ==
    [pc |-> "idle", device |-> NoDevice, path |-> NoPath, invoked |-> <<>>,
     result |-> Pending]

\* install up to the call of the installer the device type selects.
install_call(device, path) ==
    LET strategies == strategy_for(device.device_type)
    IN  [pc |-> "running", device |-> device, path |-> path,
         invoked |-> [i \in 1..Len(strategies) |-> installer_of(strategies[i])],
         result |-> Pending]

\* install from the return of the installer: its outcome is returned as it is.
install_return(i, outcome) == [i EXCEPT !.pc = "done", !.result = outcome]

(***************************************************************************)
(* Mass-storage installer (install_rpi).                                   *)
(***************************************************************************)
NoFileName == "none"

\* The firmware file handed to install_rpi: its final path component, if it
\* has one, and its length in blocks of the copy buffer.
Binaries == [file_name : {"click.uf2", NoFileName}, blocks : 0..MaxBlocks]

Labels == {"RPI-RP2", "rpi-rp2", "DATA"}

\* to_ascii_lowercase on the labels.
AsciiLower(label) ==
    CASE label \in {"RPI-RP2", "rpi-rp2"} -> "rpi-rp2"
      [] label = "DATA" -> "data"
      [] OTHER -> label

\* str::eq_ignore_ascii_case
eq_ignore_ascii_case(a, b) == AsciiLower(a) = AsciiLower(b)

\* The mounted disks sysinfo reports: the i-th is mounted at <<"mnt", i>>.
DiskLists ==
    UNION {{[i \in 1..k |-> [removable |-> f[i].removable, name |-> f[i].name,
                             mount_point |-> <<"mnt", i>>]]
            : f \in [1..k -> [removable : BOOLEAN, name : Labels]]}
           : k \in 0..MaxDisks}

\* A test that goes by the label alone.
is_rpi_disk_by_label(disk) == eq_ignore_ascii_case(disk.name, "RPI-RP2")

\* disk.is_removable() && disk.name().eq_ignore_ascii_case("RPI-RP2")
is_rpi_disk(disk) == disk.removable /\ eq_ignore_ascii_case(disk.name, "RPI-RP2")

\* A search that takes the first removable disk, whatever its label.
find_rpi_disk_removable(disks) ==
    LET idx == {i \in 1..Len(disks) : disks[i].removable}
    IN  IF idx = {} THEN 0 ELSE CHOOSE i \in idx : \A j \in idx : i <= j

\* disks.iter().find(..): the index of the first such disk, 0 when there is none.
find_rpi_disk(disks) ==
    LET idx == {i \in 1..Len(disks) : is_rpi_disk(disks[i])}
    IN  IF idx = {} THEN 0 ELSE CHOOSE i \in idx : \A j \in idx : i <= j

NoDestination == <<<<"mnt", 0>>, NoFileName>>

IdleRpi ==
    [pc |-> "idle", binary |-> [file_name |-> NoFileName, blocks |-> 0],
     disks |-> <<>>, target |-> 0, destination |-> NoDestination,
     log |-> <<>>, copies |-> <<>>, result |-> Pending]

\* install_rpi is entered and sleeps.
install_rpi_call(binary) == [IdleRpi EXCEPT !.pc = "settling", !.binary = binary]

\* std::thread::sleep(Duration::from_secs(3)) returns.
install_rpi_settled(r) == [Logged(r, "sleep", "ok") EXCEPT !.pc = "enumerating"]

\* The disks are read and searched; with a disk found the destination is
\* its mount point joined with binary.file_name().unwrap().
install_rpi_enumerate(r, disks) ==
    LET target == find_rpi_disk(disks)
        seen == [r EXCEPT !.disks = disks, !.target = target,
                          !.log = @ \o <<Done("new_with_specifics", "ok"),
                                         Done("refresh_disks_list", "ok"),
                                         Done("refresh_disks", "ok")>>]
    IN  IF target = 0
        THEN Failing(Logged(seen, "find", "none"),
                     Error("Install", <<"UF2 disk not available">>))
        ELSE IF r.binary.file_name = NoFileName
        THEN [Logged(Logged(seen, "find", "ok"), "file_name", "err") EXCEPT
                  !.pc = "panicked"]
        ELSE [Logged(Logged(seen, "find", "ok"), "file_name", "ok") EXCEPT
                  !.pc = "copying",
                  !.destination = <<disks[target].mount_point, r.binary.file_name>>]

\* copy_with_progress returns: the bytes written, or an error after some of
\* the blocks were written.
install_rpi_copy(r, copied, written) ==
    LET call == [volume |-> r.disks[r.target], destination |-> r.destination,
                 blocks |-> IF copied THEN r.binary.blocks ELSE written]
        after == [r EXCEPT !.copies = Append(@, call)]
    IN  IF copied
        THEN [Logged(after, "copy_with_progress", "ok") EXCEPT
                  !.pc = "done", !.result = Ok(r.binary.blocks)]
        ELSE Failing(Logged(after, "copy_with_progress", "err"),
                     Error("IO", <<"upload failed with reason">>))

(***************************************************************************)
(* DFU installer (install_bridge, try_open).                               *)
(***************************************************************************)
USB_BRIDGE_VENDOR_ID == "USB_BRIDGE_VENDOR_ID"
USB_BRIDGE_PRODUCT_DFU_ID == "USB_BRIDGE_PRODUCT_DFU_ID"

\* The firmware file handed to install_bridge: whether it opens, whether its
\* metadata reads, and its 64-bit length as the upper 32 bits and the lower
\* 32 bits (in blocks).
FirmwareFiles ==
    [readable : BOOLEAN, metadata_ok : BOOLEAN, len_hi : {0, 1}, len_lo : 0..MaxBlocks]

\* The attached USB devices nusb lists.
UsbDevices ==
    [vendor_id : {USB_BRIDGE_VENDOR_ID, "other"},
     product_id : {USB_BRIDGE_PRODUCT_DFU_ID, "other"}]

UsbLists == SeqsUpTo(UsbDevices, MaxUsbDevices)

IdleDfu ==
    [pc |-> "idle",
     file |-> [readable |-> FALSE, metadata_ok |-> FALSE, len_hi |-> 0, len_lo |-> 0],
     file_size |-> 0, devices |-> <<>>, log |-> <<>>, result |-> Pending]

\* install_bridge is entered.
install_bridge_call(file) == [IdleDfu EXCEPT !.pc = "open_file", !.file = file]

\* std::fs::File::open(binary)
install_bridge_open_file(d) ==
    IF d.file.readable
    THEN [Logged(d, "open_file", "ok") EXCEPT !.pc = "metadata"]
    ELSE Failing(Logged(d, "open_file", "err"),
                 Error("IO", <<"could not open firmware file">>))

\* u32::try_from(file.metadata().unwrap().len())
install_bridge_file_size(d) ==
    IF ~d.file.metadata_ok
    THEN [Logged(d, "metadata", "err") EXCEPT !.pc = "panicked"]
    ELSE IF d.file.len_hi # 0
    THEN Failing(Logged(d, "metadata", "ok"),
                 Error("IO", <<"firmware file is too large">>))
    ELSE [Logged(d, "metadata", "ok") EXCEPT !.pc = "list_devices",
                                             !.file_size = d.file.len_lo]

\* dev.vendor_id() == vid && dev.product_id() == pid
is_dfu_device(dev) ==
    dev.vendor_id = USB_BRIDGE_VENDOR_ID /\ dev.product_id = USB_BRIDGE_PRODUCT_DFU_ID

\* The error install_bridge makes of an error of try_open.
connect_error(cause) == Error("Usb", <<"unable to connect with device", cause>>)

\* nusb::list_devices().unwrap().find(..).ok_or(DeviceNotFound)?
try_open_find(d, listed, devices) ==
    LET seen == [d EXCEPT !.devices = devices]
    IN  IF ~listed
        THEN [Logged(d, "list_devices", "err") EXCEPT !.pc = "panicked"]
        ELSE IF \E i \in 1..Len(devices) : is_dfu_device(devices[i])
        THEN [Logged(seen, "list_devices", "ok") EXCEPT !.pc = "open_device"]
        ELSE Failing(Logged(seen, "list_devices", "none"), connect_error("DeviceNotFound"))

\* info.open()?
try_open_device(d, ok) ==
    IF ok
    THEN [Logged(d, "open_device", "ok") EXCEPT !.pc = "claim_interface"]
    ELSE Failing(Logged(d, "open_device", "err"), connect_error("open"))

\* device.claim_interface(int)?
try_open_claim(d, ok) ==
    IF ok
    THEN [Logged(d, "claim_interface", "ok") EXCEPT !.pc = "dfu_open"]
    ELSE Failing(Logged(d, "claim_interface", "err"), connect_error("claim"))

\* DfuNusb::open(device, interface, alt), then the progress callback and the
\* address are set.
try_open_dfu(d, ok) ==
    IF ok
    THEN [Logged(d, "dfu_open", "ok") EXCEPT !.pc = "download"]
    ELSE Failing(Logged(d, "dfu_open", "err"), connect_error("dfu"))

DownloadOutcomes == {"ok", "nusb", "err"}

\* A download that is tried again after a failure.
install_bridge_download_retry(d, outcome) ==
    IF outcome = "ok"
    THEN [Logged(d, "download", "ok") EXCEPT !.pc = "detach"]
    ELSE Logged(d, "download", outcome)

\* device.download(file, file_size) and the match on its result.
install_bridge_download(d, outcome) ==
    IF outcome = "ok"
    THEN [Logged(d, "download", "ok") EXCEPT !.pc = "detach"]
    ELSE IF outcome = "nusb"
    THEN Failing(Logged(d, "download", "nusb"),
                 Error("Usb", <<"unable to download firmware to device">>))
    ELSE Failing(Logged(d, "download", "err"),
                 Error("Usb", <<"could not write firmware to device">>))

\* A detach whose failure is passed over.
install_bridge_detach_lenient(d, ok) ==
    [Logged(d, "detach", IF ok THEN "ok" ELSE "err") EXCEPT !.pc = "usb_reset"]

\* device.detach().map_err(..)?
install_bridge_detach(d, ok) ==
    IF ok
    THEN [Logged(d, "detach", "ok") EXCEPT !.pc = "usb_reset"]
    ELSE Failing(Logged(d, "detach", "err"), Error("Usb", <<"unable to detach device">>))

\* A reset whose failure is passed over.
install_bridge_usb_reset_lenient(d, ok) ==
    [Logged(d, "usb_reset", IF ok THEN "ok" ELSE "err") EXCEPT
         !.pc = "done", !.result = Ok(<<>>)]

\* device.usb_reset().map_err(..)?; Ok(())
install_bridge_usb_reset(d, ok) ==
    IF ok
    THEN [Logged(d, "usb_reset", "ok") EXCEPT !.pc = "done", !.result = Ok(<<>>)]
    ELSE Failing(Logged(d, "usb_reset", "err"), Error("Usb", <<"unable to reset device">>))

(***************************************************************************)
(* The state machine.                                                      *)
(***************************************************************************)
Init ==
    /\ rel = IdleRel
    /\ dl = [t \in Tasks |-> IdleDl]
    /\ inst = IdleInst
    /\ rpi = IdleRpi
    /\ dfu = IdleDfu

Returned(d) == d.pc \in {"idle", "done", "panicked"}

\* No operation of the shell is in flight.
Quiet ==
    /\ rel.pc \in {"idle", "done"}
    /\ \A t \in Tasks : Returned(dl[t])
    /\ inst.pc \in {"idle", "done"}
    /\ Returned(rpi)
    /\ Returned(dfu)

\* Nothing is in flight and no returned value is held.
Idle ==
    /\ rel = IdleRel
    /\ dl = [t \in Tasks |-> IdleDl]
    /\ inst = IdleInst
    /\ rpi = IdleRpi
    /\ dfu = IdleDfu

\* The shell drops what the last operation returned.
Dismiss ==
    /\ Quiet
    /\ ~Idle
    /\ rel' = IdleRel
    /\ dl' = [t \in Tasks |-> IdleDl]
    /\ inst' = IdleInst
    /\ rpi' = IdleRpi
    /\ dfu' = IdleDfu

\* The shell invokes fetch_releases for the connected device.
FetchReleases ==
    /\ Idle
    /\ \E device \in ConnectedDevice : rel' = fetch_releases_call(device)
    /\ UNCHANGED <<dl, inst, installers>>

\* The request of get_releases completes.
GetReleasesReturn ==
    /\ rel.pc = "awaiting"
    /\ \E response \in Responses : rel' = get_releases_return(rel, response)
    /\ UNCHANGED <<dl, inst, installers>>

\* The shell picks a release of the listing and invokes fetch_compatable_asset
\* for the device connected by then.
FetchListedAsset ==
    /\ Quiet
    /\ rel.pc = "done"
    /\ rel.result.ok
    /\ \E device \in ConnectedDevice, i \in 1..Len(rel.result.value) :
           dl' = [dl EXCEPT ![1] = fetch_compatable_asset_call(
                                       device, rel.result.value[i],
                                       rel.device.device_type)]
    /\ rel' = IdleRel
    /\ UNCHANGED <<inst, installers>>

\* fetch_compatable_asset invoked with a device and a release of any origin.
FetchAsset(t) ==
    /\ dl[t].pc = "idle"
    /\ \E device \in ConnectedDevice, release \in Releases :
           dl' = [dl EXCEPT ![t] = fetch_compatable_asset_call(device, release, NotListed)]

\* The shell invokes fetch_compatable_asset with a release it holds.
FetchHeldAsset ==
    /\ Idle
    /\ FetchAsset(1)
    /\ UNCHANGED <<rel, inst, installers>>

\* The request for the asset completes.
AssetResponse ==
    \E t \in Tasks :
        /\ dl[t].pc = "awaiting_response"
        /\ \E sent \in BOOLEAN :
               dl' = [dl EXCEPT ![t] = fetch_compatable_asset_response(dl[t], sent)]
        /\ UNCHANGED <<rel, inst, installers>>

\* The body of the asset arrives, or fails to.
AssetBytes ==
    \E t \in Tasks :
        /\ dl[t].pc = "awaiting_bytes"
        /\ \E received \in BOOLEAN, now \in ClockReadings, file \in FileOutcomes :
               dl' = [dl EXCEPT ![t] =
                         fetch_compatable_asset_bytes(dl[t], received, now, file)]
        /\ UNCHANGED <<rel, inst, installers>>

\* The shell installs the downloaded file on the connected application device.
Install ==
    /\ Quiet
    /\ dl[1].pc = "done"
    /\ dl[1].result.ok
    /\ \E device \in ConnectedDevice :
           /\ device.device_type \in ApplicationTypes
           /\ inst' = install_call(device, dl[1].result.value)
    /\ dl' = [t \in Tasks |-> IdleDl]
    /\ UNCHANGED <<rel, installers>>

\* The installer returns.
InstallReturn ==
    /\ inst.pc = "running"
    /\ \E k \in 1..Len(inst.invoked) :
           \E outcome \in InstallerOutcomes(inst.invoked[k]) :
               inst' = install_return(inst, outcome)
    /\ UNCHANGED <<rel, dl, installers>>

(***************************************************************************)
(* The installers, invoked by the shell when nothing else runs.            *)
(***************************************************************************)
catalog == <<rel, dl, inst>>

\* install_rpi is invoked with a firmware file.
InstallRpi ==
    /\ Idle
    /\ \E binary \in Binaries : rpi' = install_rpi_call(binary)
    /\ UNCHANGED <<catalog, dfu>>

\* The settle wait is over.
RpiSettled ==
    /\ rpi.pc = "settling"
    /\ rpi' = install_rpi_settled(rpi)
    /\ UNCHANGED <<catalog, dfu>>

\* The disks are enumerated and searched.
RpiEnumerate ==
    /\ rpi.pc = "enumerating"
    /\ \E disks \in DiskLists : rpi' = install_rpi_enumerate(rpi, disks)
    /\ UNCHANGED <<catalog, dfu>>

\* The copy to the disk ends.
RpiCopy ==
    /\ rpi.pc = "copying"
    /\ \E copied \in BOOLEAN, written \in 0..rpi.binary.blocks :
           rpi' = install_rpi_copy(rpi, copied, written)
    /\ UNCHANGED <<catalog, dfu>>

\* install_bridge is invoked with a firmware file.
InstallBridge ==
    /\ Idle
    /\ \E file \in FirmwareFiles : dfu' = install_bridge_call(file)
    /\ UNCHANGED <<catalog, rpi>>

BridgeOpenFile ==
    /\ dfu.pc = "open_file"
    /\ dfu' = install_bridge_open_file(dfu)
    /\ UNCHANGED <<catalog, rpi>>

BridgeFileSize ==
    /\ dfu.pc = "metadata"
    /\ dfu' = install_bridge_file_size(dfu)
    /\ UNCHANGED <<catalog, rpi>>

TryOpenFind ==
    /\ dfu.pc = "list_devices"
    /\ \E listed \in BOOLEAN, devices \in UsbLists : dfu' = try_open_find(dfu, listed, devices)
    /\ UNCHANGED <<catalog, rpi>>

TryOpenDevice ==
    /\ dfu.pc = "open_device"
    /\ \E ok \in BOOLEAN : dfu' = try_open_device(dfu, ok)
    /\ UNCHANGED <<catalog, rpi>>

TryOpenClaim ==
    /\ dfu.pc = "claim_interface"
    /\ \E ok \in BOOLEAN : dfu' = try_open_claim(dfu, ok)
    /\ UNCHANGED <<catalog, rpi>>

TryOpenDfu ==
    /\ dfu.pc = "dfu_open"
    /\ \E ok \in BOOLEAN : dfu' = try_open_dfu(dfu, ok)
    /\ UNCHANGED <<catalog, rpi>>

BridgeDownload ==
    /\ dfu.pc = "download"
    /\ \E outcome \in DownloadOutcomes : dfu' = install_bridge_download(dfu, outcome)
    /\ UNCHANGED <<catalog, rpi>>

BridgeDetach ==
    /\ dfu.pc = "detach"
    /\ \E ok \in BOOLEAN : dfu' = install_bridge_detach(dfu, ok)
    /\ UNCHANGED <<catalog, rpi>>

BridgeReset ==
    /\ dfu.pc = "usb_reset"
    /\ \E ok \in BOOLEAN : dfu' = install_bridge_usb_reset(dfu, ok)
    /\ UNCHANGED <<catalog, rpi>>

Next ==
    \/ Dismiss
    \/ FetchReleases
    \/ GetReleasesReturn
    \/ FetchListedAsset
    \/ FetchHeldAsset
    \/ AssetResponse
    \/ AssetBytes
    \/ Install
    \/ InstallReturn
    \/ InstallRpi
    \/ RpiSettled
    \/ RpiEnumerate
    \/ RpiCopy
    \/ InstallBridge
    \/ BridgeOpenFile
    \/ BridgeFileSize
    \/ TryOpenFind
    \/ TryOpenDevice
    \/ TryOpenClaim
    \/ TryOpenDfu
    \/ BridgeDownload
    \/ BridgeDetach
    \/ BridgeReset

Spec == Init /\ [][Next]_vars

\* Two downloads, one invocation per task, one after the other or overlapping.
StartDownload ==
    \E t \in Tasks :
        /\ FetchAsset(t)
        /\ UNCHANGED <<rel, inst, installers>>

NextDownloads ==
    \/ StartDownload
    \/ AssetResponse
    \/ AssetBytes

SpecDownloads == Init /\ [][NextDownloads]_vars

(***************************************************************************)
(* Properties.                                                             *)
(***************************************************************************)
Failed(r) == r.pc = "done" /\ ~r.result.ok

\* The kinds of the errors get_releases returns for a request that was sent
\* and failed in transport or was answered.
HttpKinds ==
    {get_releases_result(NoDevice, response).err.kind :
        response \in {r \in Responses : ~get_releases_result(NoDevice, r).ok}}

\* C1: for a device of a bootloader type or of unknown type, fetch_releases
\* returns the error the code has for a device class without releases (Other),
\* whose kind is not a kind of the HTTP errors, and the call issues no request.
C1_BootloaderUnsupportedNoRequest ==
    (rel.pc # "idle" /\ rel.device.device_type \in BootloaderTypes) =>
        /\ Failed(rel)
        /\ rel.result.err.kind = "Other"
        /\ rel.result.err.kind \notin HttpKinds
        /\ rel.requests = <<>>

C1_Witness ==
    /\ rel.pc = "done"
    /\ rel.device.device_type = "RPBootloader"
    /\ ~rel.result.ok

\* C2: every release of a successful result of fetch_releases has at least one
\* asset compatible with the device.
C2_ReturnedReleasesUsable ==
    (rel.pc = "done" /\ rel.result.ok) =>
        \A i \in 1..Len(rel.result.value) :
            \E k \in 1..Len(rel.result.value[i].assets) :
                is_compatible(rel.result.value[i].assets[k], rel.device)

C2_Witness ==
    /\ rel.pc = "done"
    /\ rel.result.ok
    /\ Len(rel.result.value) >= 1
    /\ Len(rel.response.body.releases) > Len(rel.result.value)

\* The k-th usable release of a listing, in the listing's order.
UsableIndices(listing, device) ==
    {i \in 1..Len(listing) :
        \E k \in 1..Len(listing[i].assets) : is_compatible(listing[i].assets[k], device)}

KthUsable(listing, device, k) ==
    LET idx == UsableIndices(listing, device)
    IN  listing[CHOOSE i \in idx : Cardinality({j \in idx : j <= i}) = k]

IsUsableSubsequence(value, listing, device) ==
    /\ Len(value) = Cardinality(UsableIndices(listing, device))
    /\ \A k \in 1..Len(value) : value[k] = KthUsable(listing, device, k)

Answered(statuses) ==
    /\ rel.pc = "done"
    /\ rel.requests # <<>>
    /\ rel.response.sent
    /\ rel.response.status \in statuses

\* C3 as stated: on any success status with a well-formed listing, the call
\* succeeds with the usable releases in the catalog's order.
C3_AnySuccessStatusReturnsUsable ==
    (/\ rel.device.device_type \in ApplicationTypes
     /\ Answered(SuccessStatuses)
     /\ rel.response.body.well_formed) =>
        /\ rel.result.ok
        /\ IsUsableSubsequence(rel.result.value, rel.response.body.releases, rel.device)

\* C3: for a non-bootloader device, when the catalog answers 200 (OK) with a
\* well-formed listing, fetch_releases succeeds with exactly the releases of
\* the listing that have a compatible asset, each once and in the catalog's
\* order.
C3_OkStatusReturnsUsable ==
    (/\ rel.device.device_type \in ApplicationTypes
     /\ Answered({StatusOK})
     /\ rel.response.body.well_formed) =>
        /\ rel.result.ok
        /\ IsUsableSubsequence(rel.result.value, rel.response.body.releases, rel.device)

C3_Witness ==
    /\ Answered({StatusOK})
    /\ rel.response.body.well_formed
    /\ Len(rel.response.body.releases) = 2
    /\ Len(rel.result.value) = 2

NoCompatible(d) == CompatibleIndices(d.release, d.device) = {}

\* The kind of the error of a download whose request fails in transport.
NetworkKind(d) == fetch_compatable_asset_response(d, FALSE).result.err.kind

\* C4: given a release none of whose assets is compatible with the device,
\* fetch_asset fails with an error whose kind is not the HTTP/transport kind,
\* requests nothing and creates no file.
C4_NoCompatibleAssetNotFound ==
    \A t \in Tasks :
        (dl[t].pc # "idle" /\ NoCompatible(dl[t])) =>
            /\ Failed(dl[t])
            /\ dl[t].result.err.kind # NetworkKind(dl[t])
            /\ dl[t].requests = <<>>
            /\ dl[t].created = <<>>

\* The first asset of the release that is compatible with the device.
FirstCompatible(d) ==
    d.release.assets[CHOOSE i \in CompatibleIndices(d.release, d.device) :
                        \A j \in 1..(i - 1) : ~is_compatible(d.release.assets[j], d.device)]

\* C5: the only asset fetch_asset requests and writes to disk is the first
\* asset of the release that is compatible with the device.
C5_OnlyFirstCompatibleDownloaded ==
    \A t \in Tasks :
        /\ Len(dl[t].requests) <= 1
        /\ Len(dl[t].created) <= 1
        /\ Len(dl[t].written) <= 1
        /\ (dl[t].requests # <<>> \/ dl[t].created # <<>> \/ dl[t].written # <<>>) =>
               /\ ~NoCompatible(dl[t])
               /\ is_compatible(dl[t].asset, dl[t].device)
               /\ dl[t].asset = FirstCompatible(dl[t])
               /\ dl[t].requests = <<FirstCompatible(dl[t]).browser_download_url>>
        /\ \A k \in 1..Len(dl[t].created) :
               dl[t].created[k][2] = FirstCompatible(dl[t]).name
        /\ \A k \in 1..Len(dl[t].written) :
               /\ dl[t].written[k].path[2] = FirstCompatible(dl[t]).name
               /\ dl[t].written[k].payload = FirstCompatible(dl[t]).browser_download_url

C5_Witness ==
    \E t \in Tasks :
        /\ dl[t].pc = "done"
        /\ dl[t].result.ok
        /\ dl[t].written # <<>>
        /\ Len(dl[t].release.assets) = 2
        /\ ~is_compatible(dl[t].release.assets[1], dl[t].device)
        /\ dl[t].asset = dl[t].release.assets[2]

\* The download was rejected for want of a compatible asset.
RejectedNoCompatible(d) ==
    /\ Failed(d)
    /\ d.requests = <<>>
    /\ d.result.err.msg = <<"unable to find compatible asset from release!">>

\* C6: a release returned by fetch_releases for a device is never rejected by
\* fetch_asset for the same device for want of a compatible asset; passed with
\* a device that none of its assets matches, the download fails with no request
\* sent and no file created.
C6_ListingAndDownloadAgree ==
    \A t \in Tasks :
        (dl[t].pc # "idle" /\ dl[t].listed_for # NotListed) =>
            /\ (dl[t].listed_for = dl[t].device.device_type) =>
                   (~NoCompatible(dl[t]) /\ ~RejectedNoCompatible(dl[t]))
            /\ NoCompatible(dl[t]) =>
                   (Failed(dl[t]) /\ dl[t].requests = <<>> /\ dl[t].created = <<>>)

C6_Witness ==
    \E t \in Tasks :
        /\ dl[t].pc = "done"
        /\ dl[t].listed_for = dl[t].device.device_type
        /\ dl[t].result.ok

\* C7: two successful downloads of the same asset name return distinct paths.
C7_DownloadPathsDistinct ==
    \A t \in Tasks, u \in Tasks :
        (/\ t # u
         /\ dl[t].pc = "done" /\ dl[t].result.ok
         /\ dl[u].pc = "done" /\ dl[u].result.ok
         /\ dl[t].asset.name = dl[u].asset.name) =>
            dl[t].result.value # dl[u].result.value

\* The kinds of the errors returned for the other statuses that are no success.
OtherStatusKinds ==
    {get_releases_result(rel.device, Answer(s, MalformedBody)).err.kind :
        s \in Statuses \ (SuccessStatuses \cup {StatusForbidden, StatusTooManyRequests})}

\* C8: on 403 or 429 fetch_releases fails with an error whose kind differs from
\* the kind of the error returned for any other non-success status.
C8_RateLimitedKindDistinct ==
    Answered({StatusForbidden, StatusTooManyRequests}) =>
        /\ ~rel.result.ok
        /\ rel.result.err.kind \notin OtherStatusKinds

\* C9: on a success status with a malformed body fetch_releases fails with an
\* error whose kind differs from the kind returned for a transport failure and
\* from the kind returned for a non-success status.
C9_ParseKindDistinct ==
    (Answered({StatusOK}) /\ ~rel.response.body.well_formed) =>
        /\ ~rel.result.ok
        /\ rel.result.err.kind # get_releases_result(rel.device, TransportFailure).err.kind
        /\ rel.result.err.kind \notin OtherStatusKinds

\* C10: install resolves every non-bootloader device type to exactly one of
\* the two installers, and the failure of that installer ends the install with
\* no other installer invoked.
C10_DispatchTotalSingleValued ==
    (inst.pc # "idle" /\ inst.device.device_type \in ApplicationTypes) =>
        /\ Len(inst.invoked) = 1
        /\ inst.invoked[1] \in {"install_bridge", "install_rpi"}
        /\ (inst.pc = "done") => (inst.result \in InstallerOutcomes(inst.invoked[1]))

C10_Witness ==
    /\ inst.pc = "done"
    /\ inst.device.device_type = "ULoop"
    /\ ~inst.result.ok
    /\ inst.invoked = <<"install_rpi">>

(***************************************************************************)
(* Properties of the installers.                                           *)
(***************************************************************************)
\* The invocation made the call op and it ended in outcome.
Has(r, op, outcome) == \E k \in 1..Len(r.log) : r.log[k] = Done(op, outcome)

\* The invocation made the call op.
Called(r, op) == \E k \in 1..Len(r.log) : r.log[k].op = op

\* The number of times the invocation made the call op.
Times(r, op) == Cardinality({k \in 1..Len(r.log) : r.log[k].op = op})

\* The disk is removable and its label is the expected one up to ASCII case.
LabelledRemovable(disk) ==
    disk.removable /\ AsciiLower(disk.name) = AsciiLower("RPI-RP2")

\* The error install_rpi returns when the copy onto a disk fails.
CopyFailure ==
    install_rpi_copy([IdleRpi EXCEPT !.target = 1,
                                     !.disks = <<[removable |-> TRUE, name |-> "RPI-RP2",
                                                  mount_point |-> <<"mnt", 1>>]>>],
                     FALSE, 0).result.err

\* C11: when no mounted disk is both removable and labelled with the expected
\* name, install_rpi fails with the error the code has for a missing target
\* (Install, "UF2 disk not available"), whose kind is not the kind of a failed
\* copy, and no copy is invoked, so nothing is written.
C11_NoTargetDiskNoCopy ==
    (Called(rpi, "find") /\ \A i \in 1..Len(rpi.disks) : ~LabelledRemovable(rpi.disks[i])) =>
        /\ Failed(rpi)
        /\ rpi.result.err = Error("Install", <<"UF2 disk not available">>)
        /\ rpi.result.err.kind # CopyFailure.kind
        /\ ~Called(rpi, "copy_with_progress")
        /\ rpi.copies = <<>>

C11_Witness ==
    /\ Failed(rpi)
    /\ Len(rpi.disks) = 2
    /\ ~rpi.disks[1].removable /\ rpi.disks[1].name = "RPI-RP2"
    /\ rpi.disks[2].removable /\ rpi.disks[2].name = "DATA"
    /\ rpi.copies = <<>>

\* C12: every copy install_rpi makes goes to a listed disk that is removable
\* and whose label equals the expected name up to ASCII case, never to a disk
\* that is not removable or is labelled otherwise, and its destination is the
\* mount point of that disk joined with the file name of the firmware file.
C12_CopyOnlyToLabelledRemovable ==
    \A k \in 1..Len(rpi.copies) :
        LET c == rpi.copies[k]
        IN  /\ \E i \in 1..Len(rpi.disks) : rpi.disks[i] = c.volume
            /\ LabelledRemovable(c.volume)
            /\ \A i \in 1..Len(rpi.disks) :
                   ~LabelledRemovable(rpi.disks[i]) =>
                       c.destination[1] # rpi.disks[i].mount_point
            /\ rpi.binary.file_name # NoFileName
            /\ c.destination = <<c.volume.mount_point, rpi.binary.file_name>>

C12_Witness ==
    /\ rpi.pc = "done"
    /\ Len(rpi.copies) = 1
    /\ Len(rpi.disks) = 2
    /\ ~rpi.disks[1].removable /\ rpi.disks[1].name = "RPI-RP2"
    /\ rpi.disks[2].removable /\ rpi.disks[2].name = "rpi-rp2"
    /\ rpi.copies[1].destination = <<<<"mnt", 2>>, "click.uf2">>

\* C13: when the download succeeded and the detach fails, install_bridge
\* returns the error of the detach, the download was made once and no bus
\* reset is issued.
C13_DetachFailureEndsInstall ==
    Has(dfu, "detach", "err") =>
        /\ Failed(dfu)
        /\ dfu.result.err = Error("Usb", <<"unable to detach device">>)
        /\ Has(dfu, "download", "ok")
        /\ Times(dfu, "download") = 1
        /\ ~Called(dfu, "usb_reset")

C13_Witness ==
    /\ dfu.pc = "done"
    /\ Has(dfu, "download", "ok")
    /\ Has(dfu, "detach", "err")

\* The error install_bridge returns for a download that failed otherwise than
\* in the USB transport.
GenericDownloadFailure == install_bridge_download(IdleDfu, "err").result.err

\* C14: a download that fails in the USB transport ends install_bridge with
\* an error whose kind differs from the kind of the error of a download that
\* fails otherwise, and after either failure neither detach nor bus reset is
\* issued.
C14_TransportFailureKindDistinct ==
    /\ Has(dfu, "download", "nusb") =>
           /\ Failed(dfu)
           /\ dfu.result.err.kind # GenericDownloadFailure.kind
    /\ (Has(dfu, "download", "nusb") \/ Has(dfu, "download", "err")) =>
           /\ Failed(dfu)
           /\ ~Called(dfu, "detach")
           /\ ~Called(dfu, "usb_reset")

\* C15: fetch_compatable_asset returns a path only after the request was
\* answered, the whole body was received, the file at that path was created
\* and the body was written into it; a failure to create or write the file
\* ends it with an IO error, a failure to send the request or to read the
\* body with an Http error, and neither returns a path.
C15_PathOnlyAfterBodyWritten ==
    \A t \in Tasks :
        LET d == dl[t]
        IN  /\ (d.pc = "done" /\ d.result.ok) =>
                   /\ d.log = <<Done("send", "ok"), Done("bytes", "ok"), Done("now", "ok"),
                                Done("create", "ok"), Done("copy", "ok")>>
                   /\ d.created = <<d.result.value>>
                   /\ d.written = <<[path |-> d.result.value,
                                     payload |-> d.asset.browser_download_url]>>
            /\ (Has(d, "create", "err") \/ Has(d, "copy", "err")) =>
                   /\ Failed(d)
                   /\ d.result.err.kind = "IO"
                   /\ d.written = <<>>
            /\ (Has(d, "send", "err") \/ Has(d, "bytes", "err")) =>
                   /\ Failed(d)
                   /\ d.result.err.kind = "Http"
                   /\ d.created = <<>>

C15_Witness ==
    \E t \in Tasks :
        /\ dl[t].pc = "done"
        /\ dl[t].result.ok
        /\ Has(dl[t], "copy", "ok")
        /\ Len(dl[t].written) = 1

\* C16: install_bridge returns success exactly when the download, the detach
\* and the bus reset all succeeded; the detach is issued only right after a
\* successful download, the reset only right after a successful detach, and
\* the download only after the device was found, opened and claimed.
C16_SuccessIffAllStepsInOrder ==
    /\ (dfu.pc = "done" /\ dfu.result.ok) <=>
           /\ Has(dfu, "download", "ok")
           /\ Has(dfu, "detach", "ok")
           /\ Has(dfu, "usb_reset", "ok")
    /\ \A k \in 1..Len(dfu.log) :
           /\ dfu.log[k].op = "detach" =>
                  k > 1 /\ dfu.log[k - 1] = Done("download", "ok")
           /\ dfu.log[k].op = "usb_reset" =>
                  k > 1 /\ dfu.log[k - 1] = Done("detach", "ok")
           /\ dfu.log[k].op = "download" =>
                  /\ k > 4
                  /\ dfu.log[k - 4] = Done("list_devices", "ok")
                  /\ dfu.log[k - 3] = Done("open_device", "ok")
                  /\ dfu.log[k - 2] = Done("claim_interface", "ok")
                  /\ dfu.log[k - 1] = Done("dfu_open", "ok")

C16_Witness ==
    /\ dfu.pc = "done"
    /\ dfu.result.ok
    /\ dfu.log[Len(dfu.log)] = Done("usb_reset", "ok")

\* The error install_bridge returns for a firmware file that does not open.
UnreadableFailure == install_bridge_open_file(IdleDfu).result.err

\* The calls try_open makes on the USB bus.
ConnectCalls == {"list_devices", "open_device", "claim_interface", "dfu_open"}

\* C17: a firmware file that cannot be opened ends install_bridge with an IO
\* error, a file whose length does not fit in 32 bits ends it with an error of
\* another kind than that, and both fail before any USB device is listed,
\* opened or claimed.
C17_SizeErrorKindDistinct ==
    /\ Has(dfu, "open_file", "err") =>
           /\ Failed(dfu)
           /\ dfu.result.err.kind = "IO"
           /\ \A op \in ConnectCalls : ~Called(dfu, op)
    /\ (Has(dfu, "metadata", "ok") /\ dfu.file.len_hi # 0) =>
           /\ Failed(dfu)
           /\ dfu.result.err.kind # UnreadableFailure.kind
           /\ \A op \in ConnectCalls : ~Called(dfu, op)

\* The kinds of the errors install_bridge returns when a device that was
\* found cannot be opened, claimed or set up for DFU.
OtherConnectKinds ==
    {try_open_device(IdleDfu, FALSE).result.err.kind,
     try_open_claim(IdleDfu, FALSE).result.err.kind,
     try_open_dfu(IdleDfu, FALSE).result.err.kind}

\* C18: when no listed USB device has the expected vendor and product id,
\* install_bridge fails with an error of a kind of its own (not the kind of
\* the other connection failures) after listing the devices once, and it
\* issues no open, claim, download, detach or reset.
C18_DeviceNotFoundKind ==
    Has(dfu, "list_devices", "none") =>
        /\ Failed(dfu)
        /\ dfu.result.err.kind \notin OtherConnectKinds
        /\ Times(dfu, "list_devices") = 1
        /\ \A op \in {"open_device", "claim_interface", "dfu_open", "download",
                      "detach", "usb_reset"} : ~Called(dfu, op)

\* C19: no invocation of fetch_releases, fetch_compatable_asset, install_bridge
\* or install_rpi aborts: each ends by returning a value or an error.
C19_NoInvocationAborts ==
    /\ rel.pc # "panicked"
    /\ \A t \in Tasks : dl[t].pc # "panicked"
    /\ dfu.pc # "panicked"
    /\ rpi.pc # "panicked"

\* No call is made twice in the invocation.
NoCallRepeated(r) ==
    \A j, k \in 1..Len(r.log) : r.log[j].op = r.log[k].op => j = k

\* The error the operation returns when its call op ends in outcome.
FailureOf(op, outcome) ==
    CASE op = "send" -> fetch_compatable_asset_response(IdleDl, FALSE).result.err
      [] op = "bytes" -> Error("Http", <<"body">>)
      [] op = "create" -> Error("IO", <<"create">>)
      [] op = "copy" -> Error("IO", <<"copy">>)
      [] op = "find" -> Error("Install", <<"UF2 disk not available">>)
      [] op = "copy_with_progress" -> CopyFailure
      [] op = "open_file" -> UnreadableFailure
      [] op = "list_devices" -> connect_error("DeviceNotFound")
      [] op = "open_device" -> try_open_device(IdleDfu, FALSE).result.err
      [] op = "claim_interface" -> try_open_claim(IdleDfu, FALSE).result.err
      [] op = "dfu_open" -> try_open_dfu(IdleDfu, FALSE).result.err
      [] op = "download" -> install_bridge_download(IdleDfu, outcome).result.err
      [] op = "detach" -> install_bridge_detach(IdleDfu, FALSE).result.err
      [] op = "usb_reset" -> install_bridge_usb_reset(IdleDfu, FALSE).result.err

\* A call that failed is the last call of the invocation, and where the
\* invocation returned, it returned the error of that call.
FirstFailureEnds(r) ==
    \A k \in 1..Len(r.log) :
        r.log[k].outcome # "ok" =>
            /\ k = Len(r.log)
            /\ Returned(r)
            /\ r.pc = "done" =>
                   (~r.result.ok /\ r.result.err = FailureOf(r.log[k].op, r.log[k].outcome))

====
